---- MODULE Spec2Model ----
(***************************************************************************)
(* Model of bin/setup.js (class DevWorkflowSetup): one run of the setup    *)
(* orchestrator is checkPrerequisites, installDependencies,                *)
(* initializeHusky, copyConfigFiles, updatePackageJson, showSuccess, with  *)
(* process.exit(1) on the first thrown error.  The project directory is    *)
(* the destination tree of the eight templates, the two lock files and     *)
(* package.json.  External processes (git, npm/pnpm, husky) are modelled   *)
(* by their exit status only; directories and the permission bits of       *)
(* non-hook files are not tracked.                                         *)
(***************************************************************************)
EXTENDS Naturals, Integers, Sequences, FiniteSets, TLC

VARIABLES pc, exitCode, error, started, completed, cmds, gitProbe,
          huskyFailed, locks, files, treeBefore, i, report,
          pkg, pkgBefore, mem, added, writes,
          runNo, startFiles, startPkg, prev

vars == <<pc, exitCode, error, started, completed, cmds, gitProbe,
          huskyFailed, locks, files, treeBefore, i, report,
          pkg, pkgBefore, mem, added, writes,
          runNo, startFiles, startPkg, prev>>

(* ------------------------------ bounds -------------------------------- *)

\* number of times the tool is invoked on the same project
MaxRuns == 2

(* --------------------------- values, helpers -------------------------- *)

\* a key that is not present in the JSON document / a path that does not exist
Absent == "<absent>"

\* JavaScript truthiness of the modelled values: undefined, "" and null are falsy
Falsy(v) == v \in {Absent, "", "null"}

NoExit == -1

(* ------------------------------ templates ----------------------------- *)

\* paths are sequences of segments
filesToCopy ==
  << [src |-> <<".lintstagedrc.js">>,          dest |-> <<".lintstagedrc.js">>],
     [src |-> <<"commitlint.config.js">>,      dest |-> <<"commitlint.config.js">>],
     [src |-> <<".nvmrc">>,                    dest |-> <<".nvmrc">>],
     [src |-> <<".vscode", "settings.json">>,   dest |-> <<".vscode", "settings.json">>],
     [src |-> <<".vscode", "extensions.json">>, dest |-> <<".vscode", "extensions.json">>],
     [src |-> <<".husky", "pre-commit">>,       dest |-> <<".husky", "pre-commit">>],
     [src |-> <<".husky", "pre-push">>,         dest |-> <<".husky", "pre-push">>],
     [src |-> <<".husky", "commit-msg">>,       dest |-> <<".husky", "commit-msg">>] >>

Dests == { filesToCopy[k].dest : k \in 1..Len(filesToCopy) }

\* file.dest.startsWith('.husky/')
startsWithHusky(dest) == Len(dest) > 1 /\ dest[1] = ".husky"

\* a variant that overwrites every destination that has a path
shouldOverwriteAlways(dest) == Len(dest) > 0

shouldOverwrite(dest) == startsWithHusky(dest)

\* fs.pathExists(destPath) in a given tree
pathExists(tree, dest) == tree[dest].content # Absent

NoFile == [content |-> Absent, exec |-> FALSE]

\* the tree after fs.copy(srcPath, destPath): template bytes, mode of the template
copied(tree, dest, tmplExec) ==
  [tree EXCEPT ![dest] = [content |-> "template", exec |-> tmplExec]]

\* the tree after fs.chmod(destPath, '755'), done for hooks only
chmodHook(tree, dest) ==
  IF startsWithHusky(dest) THEN [tree EXCEPT ![dest].exec = TRUE] ELSE tree

\* the word printed after a copy; pathExists is evaluated after the copy
actionWord(treeAfter, dest) ==
  IF shouldOverwrite(dest) /\ pathExists(treeAfter, dest) THEN "Updated" ELSE "Created"

(* ------------------------------ manifest ------------------------------ *)

scriptsToAdd == [prepare |-> "husky", commit |-> "cz"]
commitizenDefault == "cz-conventional-changelog"
typeDefault == "module"

\* if (!packageJson.scripts) packageJson.scripts = {}; then the loop over scriptsToAdd
patchScripts(d) ==
  [d EXCEPT !.hasScripts = TRUE,
            !.prepare = IF Falsy(d.prepare) THEN scriptsToAdd.prepare ELSE d.prepare,
            !.commit  = IF Falsy(d.commit)  THEN scriptsToAdd.commit  ELSE d.commit]

scriptsAdded(d) == Falsy(d.prepare) \/ Falsy(d.commit)

patchConfig(d) ==
  [d EXCEPT !.hasConfig = TRUE,
            !.commitizen = IF Falsy(d.commitizen) THEN commitizenDefault ELSE d.commitizen]

patchType(d) == [d EXCEPT !.type = IF Falsy(d.type) THEN typeDefault ELSE d.type]

\* the in-memory packageJson after all the additions
patched(d) == patchType(patchConfig(patchScripts(d)))

\* the condition guarding fs.writeJson; it reads the document after the additions
writeNeeded(d) ==
  scriptsAdded(d) \/ Falsy(patched(d).commitizen) \/ Falsy(patched(d).type)

\* the keys the patch assigns in memory (each one is logged as "Added ...")
addedKeys(d) ==
  {k \in {"scripts.prepare", "scripts.commit", "config.commitizen", "type"} :
     \/ k = "scripts.prepare"   /\ Falsy(d.prepare)
     \/ k = "scripts.commit"    /\ Falsy(d.commit)
     \/ k = "config.commitizen" /\ Falsy(d.commitizen)
     \/ k = "type"              /\ Falsy(d.type)}

\* fs.writeJson(path, obj, {spaces: 2}): the text on disk is the 2-space rendering
writeJson(d) == [kind |-> "json", doc |-> d, fmt |-> "indent2"]

EmptyDoc == [hasScripts |-> FALSE, prepare |-> Absent, commit |-> Absent,
             hasConfig |-> FALSE, commitizen |-> Absent, type |-> Absent]

MissingPkg == [kind |-> "missing", doc |-> EmptyDoc, fmt |-> "none"]
MalformedPkg == [kind |-> "malformed", doc |-> EmptyDoc, fmt |-> "none"]

(* --------------------------- package manager -------------------------- *)

detectPackageManager(lk) ==
  IF "pnpm-lock.yaml" \in lk THEN "pnpm"
  ELSE IF "yarn.lock" \in lk THEN "yarn"
  ELSE "npm"

installCmd(packageManager) ==
  IF packageManager = "pnpm" THEN "pnpm add -D" ELSE "npm install --save-dev"

(* ------------------------------ run() --------------------------------- *)

\* a variant of run() that patches the manifest before copying the templates
StepAfterPatchFirst(step) ==
  CASE step = "checkPrerequisites"  -> "installDependencies"
    [] step = "installDependencies" -> "initializeHusky"
    [] step = "initializeHusky"     -> "updatePackageJson"
    [] step = "updatePackageJson"   -> "copyConfigFiles"
    [] step = "copyConfigFiles"     -> "showSuccess"
    [] step = "showSuccess"         -> "exited"

\* the handler run() awaits after the given one
StepAfter(step) ==
  CASE step = "checkPrerequisites"  -> "installDependencies"
    [] step = "installDependencies" -> "initializeHusky"
    [] step = "initializeHusky"     -> "copyConfigFiles"
    [] step = "copyConfigFiles"     -> "updatePackageJson"
    [] step = "updatePackageJson"   -> "showSuccess"
    [] step = "showSuccess"         -> "exited"

\* a variant whose catch block rethrows
huskyFailureRethrown == TRUE

\* whether the catch block of initializeHusky rethrows
huskyFailureFatal == FALSE

\* a variant that leaves out the package.json check
prerequisitesErrorGitOnly(gitOk, p) ==
  IF ~gitOk THEN "Not in a git repository" ELSE ""

\* both checks of checkPrerequisites
prerequisitesError(gitOk, p) ==
  IF ~gitOk THEN "Not in a git repository"
  ELSE IF p.kind = "missing" THEN "package.json not found"
  ELSE ""

(* ------------------------------- Init --------------------------------- *)

ScriptVals(custom) == {Absent, "", custom}

\* parseable manifests; an absent scripts/config object has no keys
Docs ==
  { d \in [hasScripts : BOOLEAN, prepare : ScriptVals("my-prepare"),
           commit : ScriptVals("my-commit"), hasConfig : BOOLEAN,
           commitizen : {Absent, "null", "my-adapter"},
           type : {Absent, "", "commonjs"}] :
      /\ (~d.hasScripts => d.prepare = Absent /\ d.commit = Absent)
      /\ (~d.hasConfig => d.commitizen = Absent) }

Fmts == {"indent2", "other"}

Pkgs == {MissingPkg, MalformedPkg} \cup [kind : {"json"}, doc : Docs, fmt : Fmts]

\* the end-to-end scenario's manifest {"name":"x"}
FreshPkg == [kind |-> "json", doc |-> EmptyDoc, fmt |-> "other"]

UserFile == [content |-> "user", exec |-> FALSE]

FileStates(dest) ==
  IF startsWithHusky(dest)
    THEN {NoFile, UserFile, [content |-> "user", exec |-> TRUE]}
    ELSE {NoFile, UserFile}

Trees == { t \in [Dests -> [content : {Absent, "user"}, exec : BOOLEAN]] :
             \A d \in Dests : t[d] \in FileStates(d) }

EmptyTree == [d \in Dests |-> NoFile]

LockFiles == {"pnpm-lock.yaml", "yarn.lock"}

NoReport == [d \in Dests |-> "none"]

Init ==
  /\ pc = "checkPrerequisites"
  /\ exitCode = NoExit
  /\ error = ""
  /\ started = << >>
  /\ completed = << >>
  /\ cmds = << >>
  /\ gitProbe = "notrun"
  /\ huskyFailed = FALSE
  /\ \/ files \in Trees /\ pkg \in {FreshPkg, MissingPkg} /\ locks = {}
     \/ files = EmptyTree /\ pkg \in Pkgs /\ locks \in SUBSET LockFiles
  /\ treeBefore = files
  /\ i = 1
  /\ report = NoReport
  /\ pkgBefore = pkg
  /\ mem = EmptyDoc
  /\ added = {}
  /\ writes = 0
  /\ runNo = 1
  /\ startFiles = files
  /\ startPkg = pkg
  /\ prev = [exit |-> NoExit, files |-> files, pkg |-> pkg]

(* ------------------------------ actions ------------------------------- *)

\* the catch block of run(): console.error, process.exit(1)
Abort(msg) ==
  /\ pc' = "exited"
  /\ exitCode' = 1
  /\ error' = msg

\* a handler returned; run() goes on to the next await
Return(step) ==
  /\ pc' = StepAfter(step)
  /\ completed' = Append(completed, step)
  /\ exitCode' = IF StepAfter(step) = "exited" THEN 0 ELSE exitCode
  /\ error' = error

CheckPrerequisites ==
  /\ pc = "checkPrerequisites"
  /\ started' = Append(started, "checkPrerequisites")
  /\ cmds' = Append(cmds, "git rev-parse --git-dir")
  /\ \E gitOk \in BOOLEAN :
       /\ gitProbe' = IF gitOk THEN "ok" ELSE "fail"
       /\ IF prerequisitesError(gitOk, pkg) # ""
            THEN Abort(prerequisitesError(gitOk, pkg)) /\ UNCHANGED completed
            ELSE Return("checkPrerequisites")
  /\ UNCHANGED <<huskyFailed, locks, files, treeBefore, i, report, pkg,
                 pkgBefore, mem, added, writes, runNo, startFiles, startPkg, prev>>

InstallDependencies ==
  /\ pc = "installDependencies"
  /\ started' = Append(started, "installDependencies")
  /\ cmds' = Append(cmds, installCmd(detectPackageManager(locks)))
  /\ \E ok \in BOOLEAN :
       IF ok THEN Return("installDependencies")
             ELSE Abort("Failed to install dependencies") /\ UNCHANGED completed
  /\ UNCHANGED <<gitProbe, huskyFailed, locks, files, treeBefore, i, report, pkg,
                 pkgBefore, mem, added, writes, runNo, startFiles, startPkg, prev>>

InitializeHusky ==
  /\ pc = "initializeHusky"
  /\ started' = Append(started, "initializeHusky")
  /\ cmds' = Append(cmds, "npx husky init")
  /\ \E ok \in BOOLEAN :
       /\ huskyFailed' = ~ok
       /\ IF ~ok /\ huskyFailureFatal
            THEN Abort("husky init failed") /\ UNCHANGED completed
            ELSE Return("initializeHusky")
  /\ UNCHANGED <<gitProbe, locks, files, treeBefore, i, report, pkg,
                 pkgBefore, mem, added, writes, runNo, startFiles, startPkg, prev>>

\* one iteration of the loop of copyConfigFiles, for filesToCopy[i]
CopyConfigFile ==
  /\ pc = "copyConfigFiles"
  /\ i <= Len(filesToCopy)
  /\ started' = IF i = 1 THEN Append(started, "copyConfigFiles") ELSE started
  /\ treeBefore' = IF i = 1 THEN files ELSE treeBefore
  /\ LET dest == filesToCopy[i].dest
         last == i = Len(filesToCopy)
         Done == /\ i' = i + 1
                 /\ IF last THEN Return("copyConfigFiles")
                            ELSE UNCHANGED <<pc, completed, exitCode, error>>
     IN  \/ \* ensureDir or copy throws before the destination is touched
            /\ Abort("copy failed")
            /\ UNCHANGED <<files, report, i, completed>>
         \/ \* the destination exists and is not a hook: skipped
            /\ pathExists(files, dest) /\ ~shouldOverwrite(dest)
            /\ report' = [report EXCEPT ![dest] = "skipped"]
            /\ UNCHANGED files
            /\ Done
         \/ \* copied (and made executable when it is a hook)
            /\ ~(pathExists(files, dest) /\ ~shouldOverwrite(dest))
            /\ \E tmplExec \in BOOLEAN :
                 LET after == chmodHook(copied(files, dest, tmplExec /\ startsWithHusky(dest)), dest)
                 IN  /\ files' = after
                     /\ report' = [report EXCEPT ![dest] = actionWord(after, dest)]
            /\ Done
         \/ \* copied, then chmod throws
            /\ startsWithHusky(dest)
            /\ \E tmplExec \in BOOLEAN : files' = copied(files, dest, tmplExec)
            /\ Abort("chmod failed")
            /\ UNCHANGED <<report, i, completed>>
  /\ UNCHANGED <<cmds, gitProbe, huskyFailed, locks, pkg, pkgBefore, mem, added,
                 writes, runNo, startFiles, startPkg, prev>>

UpdatePackageJson ==
  /\ pc = "updatePackageJson"
  /\ started' = Append(started, "updatePackageJson")
  /\ pkgBefore' = pkg
  /\ IF pkg.kind # "json"
       THEN \* fs.readJson throws
            /\ Abort("cannot read package.json")
            /\ UNCHANGED <<completed, pkg, mem, added, writes>>
       ELSE /\ mem' = patched(pkg.doc)
            /\ added' = addedKeys(pkg.doc)
            /\ IF writeNeeded(pkg.doc)
                 THEN /\ writes' = writes + 1
                      /\ \/ pkg' = writeJson(patched(pkg.doc))
                            /\ Return("updatePackageJson")
                         \/ \* fs.writeJson throws; the file is intact or truncated
                            /\ pkg' \in {pkg, MalformedPkg}
                            /\ Abort("cannot write package.json")
                            /\ UNCHANGED completed
                 ELSE /\ UNCHANGED <<pkg, writes>>
                      /\ Return("updatePackageJson")
  /\ UNCHANGED <<cmds, gitProbe, huskyFailed, locks, files, treeBefore, i, report,
                 runNo, startFiles, startPkg, prev>>

ShowSuccess ==
  /\ pc = "showSuccess"
  /\ started' = Append(started, "showSuccess")
  /\ Return("showSuccess")
  /\ UNCHANGED <<cmds, gitProbe, huskyFailed, locks, files, treeBefore, i, report,
                 pkg, pkgBefore, mem, added, writes, runNo, startFiles, startPkg, prev>>

\* the tool is invoked again in the same project directory
Rerun ==
  /\ pc = "exited"
  /\ runNo < MaxRuns
  /\ runNo' = runNo + 1
  /\ prev' = [exit |-> exitCode, files |-> files, pkg |-> pkg]
  /\ pc' = "checkPrerequisites"
  /\ exitCode' = NoExit
  /\ error' = ""
  /\ started' = << >>
  /\ completed' = << >>
  /\ cmds' = << >>
  /\ gitProbe' = "notrun"
  /\ huskyFailed' = FALSE
  /\ treeBefore' = files
  /\ i' = 1
  /\ report' = NoReport
  /\ pkgBefore' = pkg
  /\ mem' = EmptyDoc
  /\ added' = {}
  /\ writes' = 0
  /\ startFiles' = files
  /\ startPkg' = pkg
  /\ UNCHANGED <<locks, files, pkg>>

Next ==
  \/ CheckPrerequisites
  \/ InstallDependencies
  \/ InitializeHusky
  \/ CopyConfigFile
  \/ UpdatePackageJson
  \/ ShowSuccess
  \/ Rerun

Spec == Init /\ [][Next]_vars

TypeOK ==
  /\ pc \in {"checkPrerequisites", "installDependencies", "initializeHusky",
             "copyConfigFiles", "updatePackageJson", "showSuccess", "exited"}
  /\ exitCode \in {NoExit, 0, 1}
  /\ i \in 1..(Len(filesToCopy) + 1)
  /\ runNo \in 1..MaxRuns
  /\ pkg.kind \in {"missing", "malformed", "json"}

(* ------------------------- vocabulary of the claims ------------------- *)

Started(step) == \E k \in 1..Len(started) : started[k] = step
Completed(step) == \E k \in 1..Len(completed) : completed[k] = step

IsPrefix(s, t) == Len(s) <= Len(t) /\ \A k \in 1..Len(s) : s[k] = t[k]

\* entry k of filesToCopy has been handled by the copy loop of this run
Processed(k) == Started("copyConfigFiles") /\ k < i

Entries == 1..Len(filesToCopy)

TargetKeys == {"prepare", "commit", "commitizen", "type"}

Get(d, key) ==
  CASE key = "prepare"    -> d.prepare
    [] key = "commit"     -> d.commit
    [] key = "commitizen" -> d.commitizen
    [] key = "type"       -> d.type

HasAllTargets(d) == \A key \in TargetKeys : Get(d, key) # Absent

StepOrder == <<"checkPrerequisites", "installDependencies", "initializeHusky",
               "copyConfigFiles", "updatePackageJson", "showSuccess">>

Succeeded == pc = "exited" /\ exitCode = 0

(* -------------------------------- C1 ---------------------------------- *)

\* C1: once updatePackageJson has completed, every one of scripts.prepare,
\* scripts.commit, config.commitizen and type that was present in the manifest
\* before the patch (with any value, falsy ones included) has the same value
\* in memory and on disk as before.
C1_NeverOverwritesExistingKey ==
  (Completed("updatePackageJson") /\ pkgBefore.kind = "json") =>
     \A key \in TargetKeys :
        Get(pkgBefore.doc, key) # Absent =>
           /\ Get(mem, key) = Get(pkgBefore.doc, key)
           /\ Get(pkg.doc, key) = Get(pkgBefore.doc, key)

(* -------------------------------- C2 ---------------------------------- *)

\* C2: whenever updatePackageJson added at least one key in memory it wrote
\* the manifest back, and after every successful run the manifest on disk
\* contains scripts.prepare, scripts.commit, config.commitizen and type.
C2_WriteBackWheneverAdded ==
  /\ (Completed("updatePackageJson") /\ added # {}) =>
        (writes >= 1 /\ pkg = writeJson(mem))
  /\ Succeeded => (pkg.kind = "json" /\ HasAllTargets(pkg.doc))

(* -------------------------------- C3 ---------------------------------- *)

\* C3: for every template entry the copy loop has handled, a destination
\* under .husky/ holds the template content and is executable whatever it was
\* before, a non-hook destination that existed keeps its prior content, and a
\* non-hook destination that was absent holds the template content.
C3_OverwriteOnlyForHooks ==
  \A k \in Entries :
     Processed(k) =>
        LET dest == filesToCopy[k].dest
        IN  IF startsWithHusky(dest)
              THEN files[dest] = [content |-> "template", exec |-> TRUE]
              ELSE IF treeBefore[dest].content # Absent
                     THEN files[dest] = treeBefore[dest]
                     ELSE files[dest].content = "template"

\* a completed copy over a tree with an existing hook, an existing non-hook
\* file and a missing non-hook file
C3_Witness ==
  /\ Completed("copyConfigFiles")
  /\ treeBefore[<<".husky", "pre-commit">>].content = "user"
  /\ treeBefore[<<".nvmrc">>].content = "user"
  /\ treeBefore[<<".lintstagedrc.js">>].content = Absent
  /\ files[<<".nvmrc">>].content = "user"

(* -------------------------------- C4 ---------------------------------- *)

\* C4: the state reported for every handled entry follows from the
\* destination's state before the copy: skipped for an existing non-hook,
\* Updated for an existing hook, Created for any destination that was absent.
C4_ReportFollowsPriorState ==
  \A k \in Entries :
     Processed(k) =>
        LET dest == filesToCopy[k].dest
            existed == treeBefore[dest].content # Absent
        IN  report[dest] = IF ~existed THEN "Created"
                           ELSE IF startsWithHusky(dest) THEN "Updated"
                           ELSE "skipped"

(* -------------------------------- C5 ---------------------------------- *)

ManagerOf(cmd) ==
  CASE cmd = "pnpm add -D" -> "pnpm"
    [] cmd = "yarn add -D" -> "yarn"
    [] cmd = "npm install --save-dev" -> "npm"
    [] OTHER -> "none"

\* C5: the install command is issued through the manager selected by the
\* lock files: pnpm with only pnpm-lock.yaml, yarn with only yarn.lock, npm
\* with no lock file.
C5_InstallUsesDetectedManager ==
  Started("installDependencies") =>
     /\ locks = {"pnpm-lock.yaml"} => ManagerOf(cmds[2]) = "pnpm"
     /\ locks = {"yarn.lock"}      => ManagerOf(cmds[2]) = "yarn"
     /\ locks = {}                 => ManagerOf(cmds[2]) = "npm"

(* -------------------------------- C6 ---------------------------------- *)

\* C6: when the git probe failed or package.json was absent, the run has
\* exited with code 1 and nothing was changed: no install or husky command
\* was issued, the destination tree and the manifest are as at the start of
\* the run, and no manifest write happened.
C6_FatalPreconditionNoMutation ==
  (gitProbe = "fail" \/ (gitProbe = "ok" /\ startPkg.kind = "missing")) =>
     /\ pc = "exited" /\ exitCode = 1
     /\ error \in {"Not in a git repository", "package.json not found"}
     /\ cmds = <<"git rev-parse --git-dir">>
     /\ started = <<"checkPrerequisites">>
     /\ files = startFiles
     /\ pkg = startPkg
     /\ report = NoReport
     /\ writes = 0

\* a run in a git repository without package.json has been rejected
C6_Witness ==
  /\ pc = "exited"
  /\ gitProbe = "ok"
  /\ startPkg.kind = "missing"
  /\ error = "package.json not found"

(* -------------------------------- C7 ---------------------------------- *)

\* C7: when a run succeeded and the tool is run again and succeeds, the
\* destination files and the manifest on disk are those the first run left,
\* and the second run added no manifest key and wrote no manifest.
C7_Idempotent ==
  (runNo >= 2 /\ prev.exit = 0 /\ Succeeded) =>
     /\ files = prev.files
     /\ pkg = prev.pkg
     /\ added = {}
     /\ writes = 0

(* -------------------------------- C8 ---------------------------------- *)

\* C8: when the manifest contains scripts.prepare, scripts.commit,
\* config.commitizen and type before the patch, updatePackageJson writes
\* nothing and the file is unchanged.
C8_NoWriteWhenAllPresent ==
  (Started("updatePackageJson") /\ pkgBefore.kind = "json"
     /\ HasAllTargets(pkgBefore.doc)) =>
     (writes = 0 /\ pkg = pkgBefore)

(* -------------------------------- C9 ---------------------------------- *)

\* C9: the steps start in the fixed order, each after the previous one
\* completed; a fatal error ends the run with exit code 1 in the step that
\* raised it, with no later step started; exit code 0 occurs only after all
\* six steps completed.
C9_StrictOrderAndAbort ==
  /\ IsPrefix(started, StepOrder)
  /\ IsPrefix(completed, started)
  /\ Len(started) <= Len(completed) + 1
  /\ (pc # "exited" /\ ~(pc = "copyConfigFiles" /\ i > 1)) =>
        (started = completed /\ Len(started) < Len(StepOrder)
           /\ pc = StepOrder[Len(started) + 1])
  /\ error # "" =>
        /\ pc = "exited" /\ exitCode = 1
        /\ Len(started) = Len(completed) + 1
  /\ pc = "exited" => exitCode \in {0, 1}
  /\ exitCode = 1 => error # ""
  /\ exitCode = 0 => (completed = StepOrder /\ error = "")

\* the materialization failed after three completed steps
C9_Witness ==
  /\ pc = "exited"
  /\ exitCode = 1
  /\ error = "copy failed"
  /\ completed = <<"checkPrerequisites", "installDependencies", "initializeHusky">>
  /\ started = Append(completed, "copyConfigFiles")

(* -------------------------------- C10 --------------------------------- *)

\* C10: a failed husky init never aborts the run: initializeHusky completes,
\* the run continues with copyConfigFiles and updatePackageJson in order, and
\* the only errors it can end with are those of the later steps.
C10_HuskyFailureIsSoft ==
  huskyFailed =>
     /\ Completed("initializeHusky")
     /\ error \in {"", "copy failed", "chmod failed",
                   "cannot read package.json", "cannot write package.json"}
     /\ pc \in {"copyConfigFiles", "updatePackageJson", "showSuccess", "exited"}
     /\ (pc = "exited" /\ error = "") => (exitCode = 0 /\ completed = StepOrder)

\* husky init failed and the run still finished with exit code 0
C10_Witness ==
  /\ huskyFailed
  /\ Succeeded
  /\ Completed("copyConfigFiles")
  /\ Completed("updatePackageJson")
====
